---- MODULE Spec2Model ----
(***************************************************************************)
(* The GML value engine of OpenGMK: src/src/gml/value.rs.                  *)
(*                                                                         *)
(* A Value is Real(f64) or Str(Rc<str>).  TLA+ has no floating point, so   *)
(* an f64 is modelled on a two-scale lattice                               *)
(*       x = i + h/2 + t*U,   U = 5e-15  (half of the 1e-14 tolerance),    *)
(* with i an integer, h \in {0,1} and t a small integer, together with the *)
(* three non-finite values NaN, +inf and -inf.  Arithmetic on the lattice  *)
(* is exact; an operation whose exact f64 result is not on the lattice, or *)
(* lies outside the window of magnitudes the model explores, is not taken  *)
(* (guard Modelled).  Negative zero is identified with zero.               *)
(* A string is the sequence of its code units.                             *)
(***************************************************************************)
EXTENDS Integers, Sequences, FiniteSets, TLC

\* ---------------------------------------------------------------- bounds
\* integer parts of the input reals: -MaxInt .. MaxInt
MaxInt == 2
\* tiny offsets of the input reals, in units of U: -MaxTiny .. MaxTiny
MaxTiny == 2
\* window of the arithmetic results that are explored: |i| <= MaxMag
MaxMag == 4
\* length of the input strings
MaxInLen == 2
\* length of the strings an operation may build
MaxStrLen == 4
\* buffers the shared-string heap may hold
MaxBufs == 3

\* ---------------------------------------------------- program constants
\* the literal 1e-14 of the comparators, in units of U
EpsUnits == 2
MaxI32 == 2147483647
MinI32 == -2147483647 - 1

\* ------------------------------------------------------------------ f64
F(i, h, t) == [k |-> "fin", i |-> i, h |-> h, t |-> t]
FNaN == [k |-> "nan", i |-> 0, h |-> 0, t |-> 0]
FInf == [k |-> "inf", i |-> 0, h |-> 0, t |-> 0]
FNegInf == [k |-> "ninf", i |-> 0, h |-> 0, t |-> 0]

Finite(a) == a.k = "fin"
\* the value in halves, without its tiny part
Halves(a) == 2 * a.i + a.h
FromHalves(n, t) == F(n \div 2, n % 2, t)
FZero == F(0, 0, 0)
IsZero(a) == Finite(a) /\ a.i = 0 /\ a.h = 0 /\ a.t = 0

\* the sign of a value that is not NaN: -1, 0 or 1
FSign(a) ==
    CASE a.k = "inf" -> 1
      [] a.k = "ninf" -> -1
      [] OTHER -> IF Halves(a) < 0 THEN -1
                  ELSE IF Halves(a) > 0 THEN 1
                  ELSE IF a.t < 0 THEN -1
                  ELSE IF a.t > 0 THEN 1 ELSE 0

\* -a
FNeg(a) ==
    CASE a.k = "nan" -> FNaN
      [] a.k = "inf" -> FNegInf
      [] a.k = "ninf" -> FInf
      [] OTHER -> FromHalves(-Halves(a), -a.t)

\* a.abs()
FAbs(a) == IF a.k = "nan" THEN FNaN ELSE IF FSign(a) < 0 THEN FNeg(a) ELSE a

\* a + b
FAdd(a, b) ==
    CASE a.k = "nan" \/ b.k = "nan" -> FNaN
      [] a.k = "inf" -> IF b.k = "ninf" THEN FNaN ELSE FInf
      [] a.k = "ninf" -> IF b.k = "inf" THEN FNaN ELSE FNegInf
      [] b.k # "fin" -> b
      [] OTHER -> FromHalves(Halves(a) + Halves(b), a.t + b.t)

\* a - b
FSub(a, b) == FAdd(a, FNeg(b))

\* the infinity of sign sg
InfOf(sg) == IF sg < 0 THEN FNegInf ELSE FInf

\* a * b is on the lattice
MulExact(a, b) ==
    (Finite(a) /\ Finite(b)) =>
        /\ a.t * b.t = 0
        /\ (Halves(a) * Halves(b)) % 2 = 0
        /\ (Halves(a) * b.t + Halves(b) * a.t) % 2 = 0

\* a * b
FMul(a, b) ==
    CASE a.k = "nan" \/ b.k = "nan" -> FNaN
      [] ~Finite(a) \/ ~Finite(b) ->
            IF FSign(a) = 0 \/ FSign(b) = 0 THEN FNaN ELSE InfOf(FSign(a) * FSign(b))
      [] OTHER -> FromHalves((Halves(a) * Halves(b)) \div 2,
                             (Halves(a) * b.t + Halves(b) * a.t) \div 2)

\* n / d for integers, d # 0, when d divides n
QuotExact(n, d) == IF d < 0 THEN (-n) \div (-d) ELSE n \div d
Divides(d, n) == IF d < 0 THEN n % (-d) = 0 ELSE n % d = 0

\* a / b is on the lattice
DivExact(a, b) ==
    (Finite(a) /\ Finite(b) /\ ~IsZero(a) /\ ~IsZero(b)) =>
        /\ b.t = 0
        /\ Divides(Halves(b), 2 * Halves(a))
        /\ Divides(Halves(b), 2 * a.t)

\* a / b
FDiv(a, b) ==
    CASE a.k = "nan" \/ b.k = "nan" -> FNaN
      [] ~Finite(a) /\ ~Finite(b) -> FNaN
      [] ~Finite(a) -> IF FSign(b) < 0 THEN FNeg(a) ELSE a
      [] ~Finite(b) -> FZero
      [] IsZero(b) -> IF IsZero(a) THEN FNaN ELSE InfOf(FSign(a))
      [] IsZero(a) -> FZero
      [] OTHER -> FromHalves(QuotExact(2 * Halves(a), Halves(b)),
                             QuotExact(2 * a.t, Halves(b)))

\* a % b is on the lattice
RemExact(a, b) ==
    (Finite(a) /\ Finite(b) /\ ~IsZero(b)) => (a.t = 0 /\ b.t = 0)

Abs(n) == IF n < 0 THEN -n ELSE n

\* a % b: the remainder of the truncated division, its sign that of a
FRem(a, b) ==
    CASE a.k = "nan" \/ b.k = "nan" -> FNaN
      [] ~Finite(a) -> FNaN
      [] ~Finite(b) -> a
      [] IsZero(b) -> FNaN
      [] OTHER -> LET m == Abs(Halves(a)) % Abs(Halves(b))
                  IN  FromHalves(IF Halves(a) < 0 THEN -m ELSE m, 0)

\* a.floor()
FFloor(a) ==
    IF ~Finite(a) THEN a
    ELSE IF a.h = 0 /\ a.t < 0 THEN F(a.i - 1, 0, 0) ELSE F(a.i, 0, 0)

\* a < b
FLt(a, b) ==
    CASE a.k = "nan" \/ b.k = "nan" -> FALSE
      [] a.k = "ninf" -> b.k # "ninf"
      [] a.k = "inf" -> FALSE
      [] b.k = "inf" -> TRUE
      [] b.k = "ninf" -> FALSE
      [] OTHER -> \/ Halves(a) < Halves(b)
                  \/ (Halves(a) = Halves(b) /\ a.t < b.t)

\* a > b, a <= b, a >= b
FGt(a, b) == FLt(b, a)
FLe(a, b) == a.k # "nan" /\ b.k # "nan" /\ ~FLt(b, a)
FGe(a, b) == FLe(b, a)

\* the literals 1e-14 and 0.5
Eps == F(0, 0, EpsUnits)
Half == F(0, 1, 0)

\* ------------------------------------------------------------------ i32
\* !x
Not32(x) == IF x >= 0 THEN -x - 1 ELSE -(x + 1)

RECURSIVE And32(_, _)
\* x & y
And32(x, y) ==
    IF x = 0 \/ y = 0 THEN 0
    ELSE IF x = -1 THEN y
    ELSE IF y = -1 THEN x
    ELSE (x % 2) * (y % 2) + 2 * And32(x \div 2, y \div 2)

\* x | y
Or32(x, y) == Not32(And32(Not32(x), Not32(y)))

RECURSIVE Xor32(_, _)
\* x ^ y
Xor32(x, y) ==
    IF x = 0 THEN y
    ELSE IF y = 0 THEN x
    ELSE IF x = -1 THEN Not32(y)
    ELSE IF y = -1 THEN Not32(x)
    ELSE (((x % 2) + (y % 2)) % 2) + 2 * Xor32(x \div 2, y \div 2)

\* x << 1 in 32-bit two's complement
Shl1(x) ==
    LET low == x % 1073741824
        b30 == (x \div 1073741824) % 2
    IN  IF b30 = 1 THEN (2 * low - 1073741824) - 1073741824 ELSE 2 * low

RECURSIVE WrappingShl(_, _)
\* x << n for 0 <= n < 32
WrappingShl(x, n) == IF n = 0 THEN x ELSE WrappingShl(Shl1(x), n - 1)

RECURSIVE WrappingShr(_, _)
\* x >> n for 0 <= n < 32 (arithmetic)
WrappingShr(x, n) == IF n = 0 THEN x ELSE WrappingShr(x \div 2, n - 1)

\* n as f64
I32ToF(n) == F(n, 0, 0)

\* util::ieee_round of a finite value: to the nearest integer, a half away
\* from zero
IeeeRound(a) ==
    IF FSign(a) >= 0
    THEN IF a.h = 1 /\ a.t >= 0 THEN (IF a.i = MaxI32 THEN MaxI32 ELSE a.i + 1) ELSE a.i
    ELSE IF a.h = 1 /\ a.t > 0 THEN a.i + 1 ELSE a.i

\* ---------------------------------------------------------------- Value
Real(f) == [ty |-> "Real", r |-> f]
Str(s) == [ty |-> "Str", s |-> s]
\* the () of an assign form's Ok(()), and the absent right operand of a unary operator
Unit == [ty |-> "Unit"]

\* gml::TRUE and gml::FALSE
GML_TRUE == F(1, 0, 0)
GML_FALSE == F(0, 0, 0)

\* gml::Result
Ok(v) == [tag |-> "Ok", v |-> v]
InvalidOperandsUnary(op, value) ==
    [tag |-> "Err", kind |-> "InvalidOperandsUnary", op |-> op, args |-> <<value>>]
InvalidOperandsBinary(op, left, right) ==
    [tag |-> "Err", kind |-> "InvalidOperandsBinary", op |-> op, args |-> <<left, right>>]
\* the abort of an arithmetic overflow check
Panic == [tag |-> "Panic"]

\* invalid_op!($op, $value) and invalid_op!($op, $left, $right)
invalid_op1(op, value) == InvalidOperandsUnary(op, value)
invalid_op2(op, left, right) == InvalidOperandsBinary(op, left, right)

RECURSIVE StrLt(_, _)
\* s1 < s2 on str: lexicographic on the code units
StrLt(s1, s2) ==
    IF s2 = <<>> THEN FALSE
    ELSE IF s1 = <<>> THEN TRUE
    ELSE IF Head(s1) # Head(s2) THEN Head(s1) < Head(s2)
    ELSE StrLt(Tail(s1), Tail(s2))

\* gml_cmp_impl!: $freal and $fstr are the two closures of a comparator, here
\* already applied to the operands (freal to the two reals, fstr to the two
\* strings); only the one of the matching arm is evaluated.
gml_cmp_impl(op_variant, freal, fstr, self, rhs) ==
    IF self.ty = "Real" /\ rhs.ty = "Real"
    THEN Ok(Real(IF freal THEN GML_TRUE ELSE GML_FALSE))
    ELSE IF self.ty = "Str" /\ rhs.ty = "Str"
    THEN Ok(Real(IF fstr THEN GML_TRUE ELSE GML_FALSE))
    ELSE invalid_op2(op_variant, self, rhs)

\* gml_eq with the tolerance excluded: abs() < 1e-14
gml_eq_strict(self, rhs) ==
    gml_cmp_impl("Equal",
                 FLt(FAbs(FSub(self.r, rhs.r)), Eps),
                 self.s = rhs.s, self, rhs)

gml_eq(self, rhs) ==
    gml_cmp_impl("Equal",
                 FLe(FAbs(FSub(self.r, rhs.r)), Eps),
                 self.s = rhs.s, self, rhs)

\* gml_ne without the tolerance: r1 != r2
gml_ne_exact(self, rhs) ==
    gml_cmp_impl("NotEqual",
                 FLt(self.r, rhs.r) \/ FGt(self.r, rhs.r),
                 self.s # rhs.s, self, rhs)

gml_ne(self, rhs) ==
    gml_cmp_impl("NotEqual",
                 FGt(FAbs(FSub(self.r, rhs.r)), Eps),
                 self.s # rhs.s, self, rhs)

gml_lt(self, rhs) ==
    gml_cmp_impl("LessThan",
                 FLt(self.r, rhs.r),
                 StrLt(self.s, rhs.s), self, rhs)

gml_lte(self, rhs) ==
    gml_cmp_impl("LessThanOrEqual",
                 FLt(self.r, rhs.r) \/ FLe(FAbs(FSub(self.r, rhs.r)), Eps),
                 StrLt(self.s, rhs.s) \/ self.s = rhs.s, self, rhs)

gml_gt(self, rhs) ==
    gml_cmp_impl("GreaterThan",
                 FGt(self.r, rhs.r),
                 StrLt(rhs.s, self.s), self, rhs)

gml_gte(self, rhs) ==
    gml_cmp_impl("GreaterThanOrEqual",
                 FGt(self.r, rhs.r) \/ FLe(FAbs(FSub(self.r, rhs.r)), Eps),
                 StrLt(rhs.s, self.s) \/ self.s = rhs.s, self, rhs)

round(self) == IF self.ty = "Real" THEN IeeeRound(self.r) ELSE 0

\* is_truthy with > 0.5
is_truthy_strict(self) == IF self.ty = "Real" THEN FGt(self.r, Half) ELSE FALSE

is_truthy(self) == IF self.ty = "Real" THEN FGe(self.r, Half) ELSE FALSE

complement(self) ==
    IF self.ty = "Real"
    THEN Ok(Real(I32ToF(Not32(IeeeRound(self.r)))))
    ELSE invalid_op1("Complement", self)

intdiv(self, rhs) ==
    IF self.ty = "Real" /\ rhs.ty = "Real"
    THEN Ok(Real(FFloor(FDiv(self.r, rhs.r))))
    ELSE invalid_op2("IntDivide", self, rhs)

bool_and(self, rhs) ==
    Ok(IF is_truthy(self) /\ is_truthy(rhs) THEN Real(F(1, 0, 0)) ELSE Real(F(0, 0, 0)))

bool_or(self, rhs) ==
    Ok(IF is_truthy(self) \/ is_truthy(rhs) THEN Real(F(1, 0, 0)) ELSE Real(F(0, 0, 0)))

bool_xor(self, rhs) ==
    Ok(IF is_truthy(self) # is_truthy(rhs) THEN Real(F(1, 0, 0)) ELSE Real(F(0, 0, 0)))

add(self, rhs) ==
    IF self.ty = "Real" /\ rhs.ty = "Real"
    THEN Ok(Real(FAdd(self.r, rhs.r)))
    ELSE IF self.ty = "Str" /\ rhs.ty = "Str"
    THEN Ok(Str(self.s \o rhs.s))
    ELSE invalid_op2("Add", self, rhs)

\* add_assign reporting the operator of add
add_assign_tag_of_add(self, rhs) ==
    IF self.ty = "Real" /\ rhs.ty = "Real"
    THEN [slot |-> Real(FAdd(self.r, rhs.r)), res |-> Ok(Unit)]
    ELSE IF self.ty = "Str" /\ rhs.ty = "Str"
    THEN [slot |-> Str(self.s \o rhs.s), res |-> Ok(Unit)]
    ELSE [slot |-> self, res |-> invalid_op2("Add", self, rhs)]

\* an assign form yields the slot it leaves and the gml::Result<()> it returns
add_assign(self, rhs) ==
    IF self.ty = "Real" /\ rhs.ty = "Real"
    THEN [slot |-> Real(FAdd(self.r, rhs.r)), res |-> Ok(Unit)]
    ELSE IF self.ty = "Str" /\ rhs.ty = "Str"
    THEN [slot |-> Str(self.s \o rhs.s), res |-> Ok(Unit)]
    ELSE [slot |-> self, res |-> invalid_op2("AssignAdd", self, rhs)]

bitand(self, rhs) ==
    IF self.ty = "Real" /\ rhs.ty = "Real"
    THEN Ok(Real(I32ToF(And32(IeeeRound(self.r), IeeeRound(rhs.r)))))
    ELSE invalid_op2("BitwiseAnd", self, rhs)

bitand_assign(self, rhs) ==
    IF self.ty = "Real" /\ rhs.ty = "Real"
    THEN [slot |-> Real(I32ToF(And32(IeeeRound(self.r), IeeeRound(rhs.r)))), res |-> Ok(Unit)]
    ELSE [slot |-> self, res |-> invalid_op2("AssignBitwiseAnd", self, rhs)]

bitor(self, rhs) ==
    IF self.ty = "Real" /\ rhs.ty = "Real"
    THEN Ok(Real(I32ToF(Or32(IeeeRound(self.r), IeeeRound(rhs.r)))))
    ELSE invalid_op2("BitwiseOr", self, rhs)

bitor_assign(self, rhs) ==
    IF self.ty = "Real" /\ rhs.ty = "Real"
    THEN [slot |-> Real(I32ToF(Or32(IeeeRound(self.r), IeeeRound(rhs.r)))), res |-> Ok(Unit)]
    ELSE [slot |-> self, res |-> invalid_op2("AssignBitwiseOr", self, rhs)]

bitxor(self, rhs) ==
    IF self.ty = "Real" /\ rhs.ty = "Real"
    THEN Ok(Real(I32ToF(Xor32(IeeeRound(self.r), IeeeRound(rhs.r)))))
    ELSE invalid_op2("BitwiseXor", self, rhs)

bitxor_assign(self, rhs) ==
    IF self.ty = "Real" /\ rhs.ty = "Real"
    THEN [slot |-> Real(I32ToF(Xor32(IeeeRound(self.r), IeeeRound(rhs.r)))), res |-> Ok(Unit)]
    ELSE [slot |-> self, res |-> invalid_op2("AssignBitwiseXor", self, rhs)]

div(self, rhs) ==
    IF self.ty = "Real" /\ rhs.ty = "Real"
    THEN Ok(Real(FDiv(self.r, rhs.r)))
    ELSE invalid_op2("Divide", self, rhs)

div_assign(self, rhs) ==
    IF self.ty = "Real" /\ rhs.ty = "Real"
    THEN [slot |-> Real(FDiv(self.r, rhs.r)), res |-> Ok(Unit)]
    ELSE [slot |-> self, res |-> invalid_op2("AssignDivide", self, rhs)]

modulo(self, rhs) ==
    IF self.ty = "Real" /\ rhs.ty = "Real"
    THEN Ok(Real(FRem(self.r, rhs.r)))
    ELSE invalid_op2("Modulo", self, rhs)

RECURSIVE Repeat(_, _)
\* str::repeat
Repeat(s, n) == IF n = 0 THEN <<>> ELSE s \o Repeat(s, n - 1)

\* mul with the repeat count truncated instead of rounded
mul_trunc(self, rhs) ==
    IF self.ty = "Real" /\ rhs.ty = "Real"
    THEN Ok(Real(FMul(self.r, rhs.r)))
    ELSE IF self.ty = "Real" /\ rhs.ty = "Str"
    THEN Ok(LET repeat == IF FSign(self.r) >= 0
                          THEN FFloor(self.r).i
                          ELSE -(FFloor(FNeg(self.r)).i)
            IN  IF repeat > 0 THEN Str(Repeat(rhs.s, repeat)) ELSE Str(<<>>))
    ELSE invalid_op2("Multiply", self, rhs)

mul(self, rhs) ==
    IF self.ty = "Real" /\ rhs.ty = "Real"
    THEN Ok(Real(FMul(self.r, rhs.r)))
    ELSE IF self.ty = "Real" /\ rhs.ty = "Str"
    THEN Ok(LET repeat == IeeeRound(self.r)
            IN  IF repeat > 0 THEN Str(Repeat(rhs.s, repeat)) ELSE Str(<<>>))
    ELSE invalid_op2("Multiply", self, rhs)

mul_assign(self, rhs) ==
    IF self.ty = "Real" /\ rhs.ty = "Real"
    THEN [slot |-> Real(FMul(self.r, rhs.r)), res |-> Ok(Unit)]
    ELSE [slot |-> self, res |-> invalid_op2("AssignMultiply", self, rhs)]

neg(self) ==
    IF self.ty = "Real"
    THEN Ok(Real(FNeg(self.r)))
    ELSE invalid_op1("Subtract", self)

not(self) ==
    IF self.ty = "Real"
    THEN Ok(Real(IF ~is_truthy(self) THEN F(1, 0, 0) ELSE F(0, 0, 0)))
    ELSE invalid_op1("Not", self)

\* a shift count the 32-bit shift accepts
ShiftInRange(n) == 0 <= n /\ n < 32

\* i32 << i32 and i32 >> i32: a count outside 0..31 aborts when the build
\* checks arithmetic overflow and is masked to its low five bits when not
ShlI32(x, n, overflow_checks) ==
    IF ShiftInRange(n) THEN Ok(WrappingShl(x, n))
    ELSE IF overflow_checks THEN Panic
    ELSE Ok(WrappingShl(x, n % 32))

ShrI32(x, n, overflow_checks) ==
    IF ShiftInRange(n) THEN Ok(WrappingShr(x, n))
    ELSE IF overflow_checks THEN Panic
    ELSE Ok(WrappingShr(x, n % 32))

shl(self, rhs, overflow_checks) ==
    IF self.ty = "Real" /\ rhs.ty = "Real"
    THEN LET x == ShlI32(IeeeRound(self.r), IeeeRound(rhs.r), overflow_checks)
         IN  IF x.tag = "Ok" THEN Ok(Real(I32ToF(x.v))) ELSE Panic
    ELSE invalid_op2("BinaryShiftLeft", self, rhs)

shr(self, rhs, overflow_checks) ==
    IF self.ty = "Real" /\ rhs.ty = "Real"
    THEN LET x == ShrI32(IeeeRound(self.r), IeeeRound(rhs.r), overflow_checks)
         IN  IF x.tag = "Ok" THEN Ok(Real(I32ToF(x.v))) ELSE Panic
    ELSE invalid_op2("BinaryShiftRight", self, rhs)

sub(self, rhs) ==
    IF self.ty = "Real" /\ rhs.ty = "Real"
    THEN Ok(Real(FSub(self.r, rhs.r)))
    ELSE invalid_op2("Subtract", self, rhs)

\* sub_assign that takes the slot's value out before it matches, and leaves
\* the default Value behind when it fails
sub_assign_take(self, rhs) ==
    IF self.ty = "Real" /\ rhs.ty = "Real"
    THEN [slot |-> Real(FSub(self.r, rhs.r)), res |-> Ok(Unit)]
    ELSE [slot |-> Real(FZero), res |-> invalid_op2("AssignSubtract", self, rhs)]

sub_assign(self, rhs) ==
    IF self.ty = "Real" /\ rhs.ty = "Real"
    THEN [slot |-> Real(FSub(self.r, rhs.r)), res |-> Ok(Unit)]
    ELSE [slot |-> self, res |-> invalid_op2("AssignSubtract", self, rhs)]

\* ------------------------------------------- shared string buffers (Rc)
\* The same operators with Str(Rc<str>) as a pointer: a Value is Real(f) or
\* RcStr(p), and heap[p] is the str the Rc points to.
RcStr(p) == [ty |-> "Str", p |-> p]

\* Rc::from(String), String::into(): a new allocation
Alloc(h, s) == Append(h, s)
Fresh(h) == Len(h) + 1

\* the contents a Value holds
Contents(v, h) == IF v.ty = "Str" THEN Str(h[v.p]) ELSE v

\* #[derive(Clone)]: the clone of a Str is the same Rc
rc_clone(v) == v

\* impl From<String> for Value
rc_from_string(h, s) == [heap |-> Alloc(h, s), res |-> Ok(RcStr(Fresh(h)))]

\* impl From<i32> for Value
rc_from_i32(n) == Real(I32ToF(n))

rc_add(h, self, rhs) ==
    IF self.ty = "Real" /\ rhs.ty = "Real"
    THEN [heap |-> h, res |-> Ok(Real(FAdd(self.r, rhs.r)))]
    ELSE IF self.ty = "Str" /\ rhs.ty = "Str"
    THEN [heap |-> Alloc(h, h[self.p] \o h[rhs.p]), res |-> Ok(RcStr(Fresh(h)))]
    ELSE [heap |-> h, res |-> invalid_op2("Add", self, rhs)]

\* add_assign pushing rhs onto the buffer the slot points to
rc_add_assign_in_place(h, self, rhs) ==
    IF self.ty = "Real" /\ rhs.ty = "Real"
    THEN [heap |-> h, slot |-> Real(FAdd(self.r, rhs.r)), res |-> Ok(Unit)]
    ELSE IF self.ty = "Str" /\ rhs.ty = "Str"
    THEN [heap |-> [h EXCEPT ![self.p] = h[self.p] \o h[rhs.p]],
          slot |-> self, res |-> Ok(Unit)]
    ELSE [heap |-> h, slot |-> self, res |-> invalid_op2("AssignAdd", self, rhs)]

rc_add_assign(h, self, rhs) ==
    IF self.ty = "Real" /\ rhs.ty = "Real"
    THEN [heap |-> h, slot |-> Real(FAdd(self.r, rhs.r)), res |-> Ok(Unit)]
    ELSE IF self.ty = "Str" /\ rhs.ty = "Str"
    THEN [heap |-> Alloc(h, h[self.p] \o h[rhs.p]),
          slot |-> RcStr(Fresh(h)), res |-> Ok(Unit)]
    ELSE [heap |-> h, slot |-> self, res |-> invalid_op2("AssignAdd", self, rhs)]

rc_mul(h, self, rhs) ==
    IF self.ty = "Real" /\ rhs.ty = "Real"
    THEN [heap |-> h, res |-> Ok(Real(FMul(self.r, rhs.r)))]
    ELSE IF self.ty = "Real" /\ rhs.ty = "Str"
    THEN LET repeat == IeeeRound(self.r)
         IN  [heap |-> Alloc(h, IF repeat > 0 THEN Repeat(h[rhs.p], repeat) ELSE <<>>),
              res |-> Ok(RcStr(Fresh(h)))]
    ELSE [heap |-> h, res |-> invalid_op2("Multiply", self, rhs)]

\* ------------------------------------------------------------ the inputs
\* the code units of the input strings
Chars == {1, 2}

RECURSIVE StrsOfLen(_)
StrsOfLen(n) ==
    IF n = 0 THEN {<<>>}
    ELSE {<<c>> \o s : c \in Chars, s \in StrsOfLen(n - 1)}

StrInputs == UNION {StrsOfLen(n) : n \in 0..MaxInLen}

\* the multiples of one half, and the neighbourhoods of 0, 0.5, -0.5 and -1
RealInputs ==
    {F(i, h, 0) : i \in (-MaxInt)..MaxInt, h \in {0, 1}}
        \cup {F(i, h, t) : i \in {-1, 0}, h \in {0, 1}, t \in (-MaxTiny)..MaxTiny}

\* shift counts at and beyond the width of an i32
ShiftCounts == {F(31, 0, 0), F(32, 0, 0), F(33, 0, 0)}

Inputs == {Real(f) : f \in RealInputs} \cup {Str(s) : s \in StrInputs}
ShiftInputs == Inputs \cup {Real(f) : f \in ShiftCounts}

\* ------------------------------------------------- what the model explores
RoundNames == {"bitand", "bitor", "bitxor", "bitand_assign", "bitor_assign",
               "bitxor_assign", "shl", "shr", "complement"}
WindowNames == {"add", "sub", "mul", "div", "intdiv", "modulo", "neg",
                "add_assign", "sub_assign", "mul_assign", "div_assign"}

InWindow(f) ==
    Finite(f) => /\ -MaxMag <= f.i /\ f.i <= MaxMag
                 /\ -MaxTiny <= f.t /\ f.t <= MaxTiny

IsReal(v) == v.ty = "Real"
IsStr(v) == v.ty = "Str"

\* the operation is one whose exact result the lattice holds and whose
\* strings stay within MaxStrLen
Modelled(name, l, r) ==
    /\ (name \in RoundNames /\ IsReal(l)) => Finite(l.r)
    /\ (name \in RoundNames /\ IsReal(r)) => Finite(r.r)
    /\ (IsReal(l) /\ IsReal(r)) =>
          /\ name \in {"mul", "mul_assign"} => MulExact(l.r, r.r)
          /\ name \in {"div", "div_assign", "intdiv"} => DivExact(l.r, r.r)
          /\ name = "modulo" => RemExact(l.r, r.r)
    /\ (name \in {"add", "add_assign"} /\ IsStr(l) /\ IsStr(r)) =>
          Len(l.s) + Len(r.s) <= MaxStrLen
    /\ (name = "mul" /\ IsReal(l) /\ IsStr(r)) =>
          /\ Finite(l.r)
          /\ IeeeRound(l.r) <= MaxStrLen
          /\ IeeeRound(l.r) > 0 => IeeeRound(l.r) * Len(r.s) <= MaxStrLen

\* the result is within the window of magnitudes
Windowed(name, v) == (name \in WindowNames /\ IsReal(v)) => InWindow(v.r)

\* ------------------------------------------------------------- the state
VARIABLES
    slot,   \* the variable an assign form updates; the left operand of every operator
    op,     \* the operator applied last, "idle" once its result was taken
    lhs,    \* its left operand: the slot as it was before
    rhs,    \* its right operand (Unit for a unary operator)
    res,    \* the gml::Result it returned, or Panic
    heap,   \* the Rc<str> allocations: heap[p] is the contents of buffer p
    vals,   \* two variables holding Values whose Str is a pointer into heap
    last    \* the operation applied last to vals, with heap and vals before it

vars == <<slot, op, lhs, rhs, res, heap, vals, last>>
valueVars == <<slot, op, lhs, rhs, res>>
rcVars == <<heap, vals, last>>

Names == {"slot", "other"}
\* no operation on vals is under way
RcIdle == [op |-> "idle", dst |-> "slot", heap |-> <<>>,
           vals |-> [n \in Names |-> Real(F(0, 0, 0))], res |-> Ok(Unit)]
\* Value::default() in each variable, nothing allocated
RcStart ==
    /\ heap = <<>>
    /\ vals = [n \in Names |-> Real(F(0, 0, 0))]
    /\ last = RcIdle

Init ==
    /\ slot \in Inputs
    /\ op = "idle"
    /\ lhs = Unit
    /\ rhs = Unit
    /\ res = Ok(Unit)
    /\ RcStart

\* slot.clone().<name>(r) returned result
Exec(name, r, result) ==
    /\ Modelled(name, slot, r)
    /\ result.tag = "Ok" => Windowed(name, result.v)
    /\ op' = name
    /\ lhs' = slot
    /\ rhs' = r
    /\ res' = result
    /\ UNCHANGED slot
    /\ UNCHANGED rcVars

\* slot.<name>(r) left out.slot and returned out.res
ExecAssign(name, r, out) ==
    /\ Modelled(name, slot, r)
    /\ Windowed(name, out.slot)
    /\ op' = name
    /\ lhs' = slot
    /\ rhs' = r
    /\ res' = out.res
    /\ slot' = out.slot
    /\ UNCHANGED rcVars

\* the interpreter is about to apply an operator
Idle == op = "idle"

Step_gml_eq == Idle /\ \E r \in Inputs : Exec("gml_eq", r, gml_eq(slot, r))
Step_gml_ne == Idle /\ \E r \in Inputs : Exec("gml_ne", r, gml_ne(slot, r))
Step_gml_lt == Idle /\ \E r \in Inputs : Exec("gml_lt", r, gml_lt(slot, r))
Step_gml_lte == Idle /\ \E r \in Inputs : Exec("gml_lte", r, gml_lte(slot, r))
Step_gml_gt == Idle /\ \E r \in Inputs : Exec("gml_gt", r, gml_gt(slot, r))
Step_gml_gte == Idle /\ \E r \in Inputs : Exec("gml_gte", r, gml_gte(slot, r))
Step_complement == Idle /\ Exec("complement", Unit, complement(slot))
Step_intdiv == Idle /\ \E r \in Inputs : Exec("intdiv", r, intdiv(slot, r))
Step_bool_and == Idle /\ \E r \in Inputs : Exec("bool_and", r, bool_and(slot, r))
Step_bool_or == Idle /\ \E r \in Inputs : Exec("bool_or", r, bool_or(slot, r))
Step_bool_xor == Idle /\ \E r \in Inputs : Exec("bool_xor", r, bool_xor(slot, r))
Step_add == Idle /\ \E r \in Inputs : Exec("add", r, add(slot, r))
Step_add_assign == Idle /\ \E r \in Inputs : ExecAssign("add_assign", r, add_assign(slot, r))
Step_bitand == Idle /\ \E r \in Inputs : Exec("bitand", r, bitand(slot, r))
Step_bitand_assign == Idle /\ \E r \in Inputs : ExecAssign("bitand_assign", r, bitand_assign(slot, r))
Step_bitor == Idle /\ \E r \in Inputs : Exec("bitor", r, bitor(slot, r))
Step_bitor_assign == Idle /\ \E r \in Inputs : ExecAssign("bitor_assign", r, bitor_assign(slot, r))
Step_bitxor == Idle /\ \E r \in Inputs : Exec("bitxor", r, bitxor(slot, r))
Step_bitxor_assign == Idle /\ \E r \in Inputs : ExecAssign("bitxor_assign", r, bitxor_assign(slot, r))
Step_div == Idle /\ \E r \in Inputs : Exec("div", r, div(slot, r))
Step_div_assign == Idle /\ \E r \in Inputs : ExecAssign("div_assign", r, div_assign(slot, r))
Step_modulo == Idle /\ \E r \in Inputs : Exec("modulo", r, modulo(slot, r))
Step_mul == Idle /\ \E r \in Inputs : Exec("mul", r, mul(slot, r))
Step_mul_assign == Idle /\ \E r \in Inputs : ExecAssign("mul_assign", r, mul_assign(slot, r))
Step_neg == Idle /\ Exec("neg", Unit, neg(slot))
Step_not == Idle /\ Exec("not", Unit, not(slot))
\* the build either checks arithmetic overflow (debug) or does not (release)
Step_shl == Idle /\ \E r \in ShiftInputs, oc \in BOOLEAN : Exec("shl", r, shl(slot, r, oc))
Step_shr == Idle /\ \E r \in ShiftInputs, oc \in BOOLEAN : Exec("shr", r, shr(slot, r, oc))
Step_sub == Idle /\ \E r \in Inputs : Exec("sub", r, sub(slot, r))
Step_sub_assign == Idle /\ \E r \in Inputs : ExecAssign("sub_assign", r, sub_assign(slot, r))

\* the interpreter takes the result (pushes the value or propagates the
\* error) and goes on to its next instruction; an aborted process does not
Consume ==
    /\ op # "idle"
    /\ res.tag # "Panic"
    /\ op' = "idle"
    /\ lhs' = Unit
    /\ rhs' = Unit
    /\ res' = Ok(Unit)
    /\ UNCHANGED slot
    /\ UNCHANGED rcVars

Next ==
    \/ Step_gml_eq \/ Step_gml_ne \/ Step_gml_lt
    \/ Step_gml_lte \/ Step_gml_gt \/ Step_gml_gte
    \/ Step_complement \/ Step_intdiv
    \/ Step_bool_and \/ Step_bool_or \/ Step_bool_xor
    \/ Step_add \/ Step_add_assign
    \/ Step_bitand \/ Step_bitand_assign
    \/ Step_bitor \/ Step_bitor_assign
    \/ Step_bitxor \/ Step_bitxor_assign
    \/ Step_div \/ Step_div_assign
    \/ Step_modulo
    \/ Step_mul \/ Step_mul_assign
    \/ Step_neg \/ Step_not
    \/ Step_shl \/ Step_shr
    \/ Step_sub \/ Step_sub_assign
    \/ Consume

Spec == Init /\ [][Next]_vars

\* --------------------------------------------------- the operator table
UnaryNames == {"neg", "not", "complement"}
CmpNames == {"gml_eq", "gml_ne", "gml_lt", "gml_lte", "gml_gt", "gml_gte"}
AssignNames == {"add_assign", "sub_assign", "mul_assign", "div_assign",
                "bitand_assign", "bitor_assign", "bitxor_assign"}
RealOnlyNames == {"sub", "div", "intdiv", "modulo", "bitand", "bitor", "bitxor",
                  "shl", "shr"}
FallibleNames == UnaryNames \cup CmpNames \cup AssignNames \cup RealOnlyNames
                    \cup {"add", "mul"}

\* the gml::Result of the operator named name
Apply(name, l, r, overflow_checks) ==
    CASE name = "gml_eq" -> gml_eq(l, r)
      [] name = "gml_ne" -> gml_ne(l, r)
      [] name = "gml_lt" -> gml_lt(l, r)
      [] name = "gml_lte" -> gml_lte(l, r)
      [] name = "gml_gt" -> gml_gt(l, r)
      [] name = "gml_gte" -> gml_gte(l, r)
      [] name = "complement" -> complement(l)
      [] name = "intdiv" -> intdiv(l, r)
      [] name = "bool_and" -> bool_and(l, r)
      [] name = "bool_or" -> bool_or(l, r)
      [] name = "bool_xor" -> bool_xor(l, r)
      [] name = "add" -> add(l, r)
      [] name = "add_assign" -> add_assign(l, r).res
      [] name = "bitand" -> bitand(l, r)
      [] name = "bitand_assign" -> bitand_assign(l, r).res
      [] name = "bitor" -> bitor(l, r)
      [] name = "bitor_assign" -> bitor_assign(l, r).res
      [] name = "bitxor" -> bitxor(l, r)
      [] name = "bitxor_assign" -> bitxor_assign(l, r).res
      [] name = "div" -> div(l, r)
      [] name = "div_assign" -> div_assign(l, r).res
      [] name = "modulo" -> modulo(l, r)
      [] name = "mul" -> mul(l, r)
      [] name = "mul_assign" -> mul_assign(l, r).res
      [] name = "neg" -> neg(l)
      [] name = "not" -> not(l)
      [] name = "shl" -> shl(l, r, overflow_checks)
      [] name = "shr" -> shr(l, r, overflow_checks)
      [] name = "sub" -> sub(l, r)
      [] name = "sub_assign" -> sub_assign(l, r).res

\* the non-mutating operator an assign form is the counterpart of
NonMutating(name, l, r) ==
    CASE name = "add_assign" -> add(l, r)
      [] name = "sub_assign" -> sub(l, r)
      [] name = "mul_assign" -> mul(l, r)
      [] name = "div_assign" -> div(l, r)
      [] name = "bitand_assign" -> bitand(l, r)
      [] name = "bitor_assign" -> bitor(l, r)
      [] name = "bitxor_assign" -> bitxor(l, r)

\* ------------------------------------------------------------ the claims
True == Ok(Real(GML_TRUE))
False == Ok(Real(GML_FALSE))
BothReal == IsReal(lhs) /\ IsReal(rhs)

\* |a - b| <= 1e-14, stated on the lattice: the same multiple of one half
\* and tiny parts at most EpsUnits apart
WithinEps(a, b) ==
    /\ Finite(a) /\ Finite(b)
    /\ Halves(a) = Halves(b)
    /\ Abs(a.t - b.t) <= EpsUnits

\* C1: an assign form succeeds iff its non-mutating operator succeeds on
\* (slot, rhs), and on success the slot then holds the value that operator
\* returns.
C1_AssignRefinesOperator ==
    op \in AssignNames =>
        LET r == NonMutating(op, lhs, rhs)
        IN  /\ (res.tag = "Ok") <=> (r.tag = "Ok")
            /\ res.tag = "Ok" => slot = r.v

\* C2: an assign form that returns an error leaves the slot as it was,
\* whatever was done to the slot before.
C2_FailedAssignKeepsSlot ==
    (op \in AssignNames /\ res.tag = "Err") => slot = lhs

\* a failed assign form on a slot that earlier assign forms have built
C2_Witness ==
    /\ op = "sub_assign"
    /\ res.tag = "Err"
    /\ IsStr(slot)
    /\ Len(slot.s) > MaxInLen

\* the variant combinations an operator is permitted on
Permitted(name, l, r) ==
    CASE name = "add" -> (IsReal(l) /\ IsReal(r)) \/ (IsStr(l) /\ IsStr(r))
      [] name = "mul" -> IsReal(l) /\ (IsReal(r) \/ IsStr(r))
      [] name \in RealOnlyNames -> IsReal(l) /\ IsReal(r)
      [] name \in CmpNames -> l.ty = r.ty
      [] name \in UnaryNames -> IsReal(l)

C3Names == {"add", "mul"} \cup RealOnlyNames \cup CmpNames \cup UnaryNames

\* C3: an operator succeeds exactly on the permitted variant combinations
\* and returns an error on every other one.
C3_SucceedsIffPermitted ==
    op \in C3Names =>
        /\ (res.tag = "Ok") <=> Permitted(op, lhs, rhs)
        /\ ~Permitted(op, lhs, rhs) => res.tag = "Err"

\* the kind and the operator tag of the error the operator named name returns
ErrIdentOf(name) ==
    LET e == IF name \in UnaryNames
             THEN Apply(name, Str(<<>>), Unit, FALSE)
             ELSE Apply(name, Str(<<>>), Real(FZero), FALSE)
    IN  <<e.kind, e.op>>

\* C4: an error holds the operand(s) unchanged, one for a unary operator and
\* both in left/right order for a binary one, and its kind and operator tag
\* are those of no other operator.
C4_ErrorIdentifiesOperator ==
    res.tag = "Err" =>
        /\ op \in UnaryNames =>
              res.kind = "InvalidOperandsUnary" /\ res.args = <<lhs>>
        /\ op \notin UnaryNames =>
              res.kind = "InvalidOperandsBinary" /\ res.args = <<lhs, rhs>>
        /\ \A o \in FallibleNames \ {op} : ErrIdentOf(o) # <<res.kind, res.op>>

\* unary minus has failed on a string
C4_Witness == op = "neg" /\ res.tag = "Err" /\ lhs = Str(<<1, 2>>)

\* C5 as stated: within the tolerance all six operators treat a and b as equal.
C5_AllSixTreatAsEqual ==
    (op \in CmpNames /\ BothReal /\ WithinEps(lhs.r, rhs.r)) =>
        res = IF op \in {"gml_eq", "gml_lte", "gml_gte"} THEN True ELSE False

\* C5 amended: within the tolerance gml_eq, gml_lte and gml_gte return TRUE
\* and gml_ne returns FALSE; gml_lt and gml_gt compare without a tolerance:
\* gml_lt returns TRUE iff a < b and gml_gt returns TRUE iff a > b.
C5_ToleranceOnlyWhereEqualityCounts ==
    (op \in CmpNames /\ BothReal /\ WithinEps(lhs.r, rhs.r)) =>
        res = CASE op \in {"gml_eq", "gml_lte", "gml_gte"} -> True
                [] op = "gml_ne" -> False
                [] op = "gml_lt" -> IF lhs.r.t < rhs.r.t THEN True ELSE False
                [] op = "gml_gt" -> IF lhs.r.t > rhs.r.t THEN True ELSE False

\* two distinct reals within the tolerance, and gml_lt tells them apart
C5_Witness ==
    /\ op = "gml_lt" /\ BothReal
    /\ WithinEps(lhs.r, rhs.r) /\ lhs # rhs
    /\ res = True

\* what C6 says of the operands a, b of a comparison
C6_Body(a, b) ==
    /\ op = "gml_eq" => ((res = True) <=> WithinEps(a, b))
    /\ op = "gml_lte" =>
          /\ (res = True) <=> (FLt(a, b) \/ WithinEps(a, b))
          /\ ~(res = False /\ gml_gte(lhs, rhs) = False)
    /\ op = "gml_gte" => ~(res = False /\ gml_lte(lhs, rhs) = False)

\* C6 as stated, for all reals a, b.
C6_AllReals ==
    /\ (op \in CmpNames /\ BothReal) => C6_Body(lhs.r, rhs.r)
    /\ (op \in CmpNames /\ res.tag = "Ok") => res \in {True, False}

\* C6 amended: for all finite reals a, b (neither NaN nor an infinity) the
\* three statements hold; every comparison result, of any operands, is
\* Real(TRUE) or Real(FALSE).
C6_FiniteReals ==
    /\ (op \in CmpNames /\ BothReal /\ Finite(lhs.r) /\ Finite(rhs.r)) =>
          C6_Body(lhs.r, rhs.r)
    /\ (op \in CmpNames /\ res.tag = "Ok") => res \in {True, False}

\* gml_eq at exactly the tolerance
C6_Witness ==
    /\ op = "gml_eq" /\ BothReal
    /\ Finite(lhs.r) /\ Finite(rhs.r)
    /\ Halves(lhs.r) = Halves(rhs.r)
    /\ Abs(lhs.r.t - rhs.r.t) = EpsUnits
    /\ res = True

\* out is s repeated n times
IsRepeat(out, s, n) ==
    /\ Len(out) = n * Len(s)
    /\ \A j \in 1..Len(out) : out[j] = s[((j - 1) % Len(s)) + 1]

\* C7: mul(Real(n), Str(s)) is Str(s repeated round(n) times) when
\* round(n) > 0 and Str("") otherwise; mul(Str, _) fails.
C7_MulRepeats ==
    op = "mul" =>
        /\ (IsReal(lhs) /\ IsStr(rhs)) =>
              /\ res.tag = "Ok"
              /\ IsStr(res.v)
              /\ IF round(lhs) > 0
                 THEN IsRepeat(res.v.s, rhs.s, round(lhs))
                 ELSE res.v.s = <<>>
        /\ IsStr(lhs) => res.tag = "Err"

\* a string repeated more than once, by a count that was rounded up
C7_Witness ==
    /\ op = "mul"
    /\ lhs = Real(F(1, 1, 0))
    /\ rhs = Str(<<1, 2>>)
    /\ res = Ok(Str(<<1, 2, 1, 2>>))

\* x >= 0.5, stated on the lattice
AtLeastHalf(a) ==
    CASE a.k = "inf" -> TRUE
      [] a.k = "fin" -> Halves(a) > 1 \/ (Halves(a) = 1 /\ a.t >= 0)
      [] OTHER -> FALSE
Truthy(v) == IsReal(v) /\ AtLeastHalf(v.r)
Bool(b) == IF b THEN True ELSE False

\* C8: bool_and, bool_or and bool_xor never fail and return the and/or/xor
\* of the operands' truthiness, a Real being truthy iff it is >= 0.5 and a
\* Str never; not on a Real returns TRUE iff the operand is not truthy.
C8_BooleanLogic ==
    /\ op = "bool_and" => res = Bool(Truthy(lhs) /\ Truthy(rhs))
    /\ op = "bool_or" => res = Bool(Truthy(lhs) \/ Truthy(rhs))
    /\ op = "bool_xor" => res = Bool(Truthy(lhs) # Truthy(rhs))
    /\ (op = "not" /\ IsReal(lhs)) => res = Bool(~Truthy(lhs))

\* a string and exactly 0.5: only the real is truthy
C8_Witness ==
    /\ op = "bool_xor"
    /\ IsStr(lhs)
    /\ rhs = Real(Half)
    /\ res = True

\* bit j of the i32 x
BitOf(x, j) ==
    IF j = 31 THEN (IF x < 0 THEN 1 ELSE 0)
    ELSE LET p == WrappingShl(1, j) IN (x \div p) % 2

\* C10: bitand, bitor, bitxor and complement work on the rounded i32s; shl
\* and shr never abort nor fail and use the shift count unmasked, so that a
\* count of 32 or more shifts every bit out.
C10_BitwiseAndShifts ==
    /\ (op \in {"bitand", "bitor", "bitxor"} /\ BothReal) =>
          /\ res.tag = "Ok" /\ IsReal(res.v) /\ res.v.r.h = 0 /\ res.v.r.t = 0
          /\ \A j \in 0..31 :
                LET a == BitOf(round(lhs), j)
                    b == BitOf(round(rhs), j)
                IN  BitOf(res.v.r.i, j) =
                        CASE op = "bitand" -> a * b
                          [] op = "bitor" -> IF a + b > 0 THEN 1 ELSE 0
                          [] op = "bitxor" -> (a + b) % 2
    /\ (op = "complement" /\ IsReal(lhs)) =>
          res = Ok(Real(I32ToF(-round(lhs) - 1)))
    /\ (op \in {"shl", "shr"} /\ BothReal) =>
          /\ res.tag = "Ok"
          /\ round(rhs) >= 32 =>
                res.v = Real(I32ToF(IF op = "shr" /\ round(lhs) < 0 THEN -1 ELSE 0))

\* ------------------------------------- the shared-buffer specification
\* the strings and the counts the variables are given
RcStrInputs == StrsOfLen(1)
RcCounts == 0..MaxInt

\* the heap stays within MaxBufs buffers of at most MaxStrLen code units
RcBounded(h) ==
    /\ Len(h) <= MaxBufs
    /\ \A p \in 1..Len(h) : Len(h[p]) <= MaxStrLen

RcInit ==
    /\ slot = Real(F(0, 0, 0))
    /\ op = "idle"
    /\ lhs = Unit
    /\ rhs = Unit
    /\ res = Ok(Unit)
    /\ RcStart

\* dst = <name>(...): out.res is the gml::Result, out.heap the heap it leaves
RcExec(name, dst, out) ==
    /\ RcBounded(out.heap)
    /\ (out.res.tag = "Ok" /\ IsReal(out.res.v)) =>
          (-MaxInt <= out.res.v.r.i /\ out.res.v.r.i <= MaxInt)
    /\ heap' = out.heap
    /\ vals' = IF out.res.tag = "Ok" THEN [vals EXCEPT ![dst] = out.res.v] ELSE vals
    /\ last' = [op |-> name, dst |-> dst, heap |-> heap, vals |-> vals, res |-> out.res]
    /\ UNCHANGED valueVars

\* the caller is about to apply an operation
RcReady == last.op = "idle"

\* let dst = Value::from(s)
Rc_from_string ==
    RcReady /\ \E dst \in Names, s \in RcStrInputs :
        RcExec("from_string", dst, rc_from_string(heap, s))

\* let dst = Value::from(n)
Rc_from_i32 ==
    RcReady /\ \E dst \in Names, n \in RcCounts :
        RcExec("from_i32", dst, [heap |-> heap, res |-> Ok(rc_from_i32(n))])

\* let dst = src.clone()
Rc_clone ==
    RcReady /\ \E dst \in Names, src \in Names :
        RcExec("clone", dst, [heap |-> heap, res |-> Ok(rc_clone(vals[src]))])

\* let dst = x.clone().add(y.clone())
Rc_add ==
    RcReady /\ \E dst \in Names, x \in Names, y \in Names :
        RcExec("add", dst, rc_add(heap, rc_clone(vals[x]), rc_clone(vals[y])))

\* let dst = x.clone().mul(y.clone())
Rc_mul ==
    RcReady /\ \E dst \in Names, x \in Names, y \in Names :
        RcExec("mul", dst, rc_mul(heap, rc_clone(vals[x]), rc_clone(vals[y])))

\* slot.add_assign(y.clone())
Rc_add_assign ==
    RcReady /\ \E y \in Names :
        LET out == rc_add_assign(heap, vals["slot"], rc_clone(vals[y]))
        IN  /\ RcBounded(out.heap)
            /\ IsReal(out.slot) => (-MaxInt <= out.slot.r.i /\ out.slot.r.i <= MaxInt)
            /\ heap' = out.heap
            /\ vals' = [vals EXCEPT !["slot"] = out.slot]
            /\ last' = [op |-> "add_assign", dst |-> "slot", heap |-> heap,
                        vals |-> vals, res |-> out.res]
            /\ UNCHANGED valueVars

\* the caller goes on to its next statement
Rc_done ==
    /\ last.op # "idle"
    /\ last' = RcIdle
    /\ UNCHANGED <<heap, vals>>
    /\ UNCHANGED valueVars

RcNext ==
    \/ Rc_from_string
    \/ Rc_from_i32
    \/ Rc_clone
    \/ Rc_add
    \/ Rc_mul
    \/ Rc_add_assign
    \/ Rc_done

RcSpec == RcInit /\ [][RcNext]_vars

\* C9: an operation leaves every buffer that existed with the contents it
\* had, and every variable other than the one it writes with the contents
\* it held; add_assign on a Str slot points the slot, and nothing else, at a
\* new buffer holding the concatenation.
C9_SharedBuffersUnchanged ==
    last.op # "idle" =>
    /\ \A p \in 1..Len(last.heap) : p <= Len(heap) /\ heap[p] = last.heap[p]
    /\ \A n \in Names \ {last.dst} :
          Contents(vals[n], heap) = Contents(last.vals[n], last.heap)
    /\ (last.op = "add_assign" /\ last.res.tag = "Ok" /\ last.vals["slot"].ty = "Str") =>
          /\ vals["slot"].ty = "Str"
          /\ vals["slot"].p > Len(last.heap)
          /\ \E y \in Names :
                /\ last.vals[y].ty = "Str"
                /\ heap[vals["slot"].p] =
                      last.heap[last.vals["slot"].p] \o last.heap[last.vals[y].p]

\* add_assign has appended to a slot whose buffer another variable shares
C9_Witness ==
    /\ last.op = "add_assign"
    /\ last.res.tag = "Ok"
    /\ last.vals["slot"].ty = "Str"
    /\ last.vals["other"] = last.vals["slot"]
    /\ Contents(vals["slot"], heap) # Contents(vals["other"], heap)

====
